---------------------------- MODULE Spec2Model ----------------------------
(***************************************************************************)
(* Model of the real-time messaging and presence subsystem of booktime:    *)
(* main/consumers.py (ChatConsumer, ChatNotifyConsumer).                   *)
(*                                                                         *)
(* Every coroutine is cut at its awaits: one action per stretch of code    *)
(* that runs without yielding to the event loop.  A consumer handles one   *)
(* event at a time, so the handlers of one connection never interleave     *)
(* with each other, while handlers of different connections and the        *)
(* streaming tasks interleave at every await.                              *)
(*                                                                         *)
(* Strings that the code formats and parses (room names, presence keys)    *)
(* are sequences of tokens; the separator "_" is a token of its own.       *)
(***************************************************************************)
EXTENDS Integers, Sequences, FiniteSets, TLC

(***************************************************************************)
(* Bounds of the model.                                                    *)
(***************************************************************************)
MaxMsgs == 2

MaxBeats == 2

MaxFrames == 3

\* inbound events of another type the model receives
MaxOther == 1

\* tokens of the longest email the key round trip is tried with
MaxEmailLen == 3

(***************************************************************************)
(* Program constants.                                                      *)
(***************************************************************************)
EMPLOYEE == 2

CLIENT == 1

TTL == 10

SleepInterval == 5

(***************************************************************************)
(* The callers (scope['user']) and the orders of the database.             *)
(***************************************************************************)
Conns == {1, 2, 3}

Users == {"anon", "emp", "cust1", "cust2"}

IsAnonymous(u) == u = "anon"

\* the staff accounts; "emp2" calls only where a second one is needed
StaffUsers == {"emp", "emp2"}

\* user.is_employee of an authenticated user
IsEmployee(u) == u \in StaffUsers

\* AnonymousUser has no attribute is_employee declared in this repository:
\* reading it either raises AttributeError or yields a false value.
AnonIsEmployeeOutcomes == {"error", "false"}

FullName(u) ==
    CASE u = "emp"   -> "Eve Staff"
      [] u = "emp2"  -> "Sam Staff"
      [] u = "cust1" -> "Ann Client"
      [] u = "cust2" -> "Bob Client"
      [] OTHER       -> ""

\* user.email, as tokens; cust2's address holds the separator "_"
Email(u) ==
    CASE u = "emp"   -> <<"eve@shop">>
      [] u = "emp2"  -> <<"sam@shop">>
      [] u = "cust1" -> <<"ann@mail">>
      [] u = "cust2" -> <<"bob", "_", "b@mail">>
      [] OTHER       -> <<>>

\* order ids a URL can name; only the ids of Orders have a record
OrderIds == {"1", "2", "3"}

Orders == {"1", "2"}

\* order.user
OrderUser(o) == IF o = "1" THEN "cust1" ELSE "cust2"

NoUser == "nobody"

Bodies == {"hi", "yo"}

\* 'customer-service_%s' % self.order_id
RoomGroupName(o) == <<"customer-service", "_", o>>

Rooms == {RoomGroupName(o) : o \in OrderIds}

NoEvent == [type |-> "none"]

Streams == {1}

\* scope['query_string'] values: the text nopoll, another text, no text, and
\* the byte string b'nopoll' an ASGI server hands over
QueryStrings == {[kind |-> "str", text |-> "nopoll"],
                 [kind |-> "str", text |-> ""],
                 [kind |-> "bytes", text |-> "nopoll"]}

NoFrame == [prefix |-> "", json |-> <<>>, suffix |-> ""]

\* a ChatNotifyConsumer before handle() has run
NewStream ==
    [pc |-> "new", user |-> NoUser, headers |-> FALSE,
     is_streaming |-> FALSE, no_poll |-> FALSE,
     presences |-> <<>>, k |-> 0, data |-> <<>>, remain |-> 0,
     nframes |-> 0, lastFrame |-> NoFrame, lastMore |-> FALSE,
     finished |-> FALSE, disc |-> FALSE, afterFlip |-> 0, sinceFrame |-> 0,
     spun |-> FALSE]

Trackers == {1, 2}

\* the bodies the upstream resource may answer with
Payloads == {"parcel at depot", "parcel delivered"}

\* no key is on its way
NoProbe == [stage |-> "none"]

\* an OrderTrackerConsumer before handle() has run
NewTracker ==
    [pc |-> "new", user |-> NoUser, order_id |-> "0", nreq |-> 0,
     payload |-> "", responses |-> <<>>]

VARIABLES
    pc,             \* chat connection -> where its consumer stands
    cuser,          \* chat connection -> scope['user']
    corder,         \* chat connection -> self.order_id
    groups,         \* channel layer: room group name -> set of connections
    last_spoken_to, \* order -> order.last_spoken_to
    lookups,        \* chat connection -> number of order lookups it made
    last,           \* the latest group_send: event, room, receivers
    njoin,          \* chat connection -> chat_join broadcasts it caused
    nleave,         \* chat connection -> chat_leave broadcasts it caused
    nmsgs,          \* number of inbound message events handled
    lastIn,         \* the latest inbound message event
    store,          \* Redis: presence key -> remaining time to live
    nbeats,         \* number of heartbeat events handled
    hbAge,          \* (order, user) -> time since that participant's heartbeat
    notify,         \* presence stream -> its consumer and streaming task
    tracker,        \* order-tracker request -> its consumer
    nother,         \* inbound events that are neither message nor heartbeat
    probe           \* one presence key on its way from heartbeat to scan

chatVars == <<pc, cuser, corder, groups, last_spoken_to, lookups, last,
              njoin, nleave, nmsgs, lastIn>>

storeVars == <<store, nbeats, hbAge>>

vars == <<chatVars, storeVars, notify, tracker, nother, probe>>


(***************************************************************************)
(* Initial state: no connection has been opened, the channel layer has no  *)
(* group member, no order has been spoken to, Redis holds no key.          *)
(***************************************************************************)
InitProgram ==
    /\ pc = [c \in Conns |-> "new"]
    /\ cuser = [c \in Conns |-> NoUser]
    /\ corder = [c \in Conns |-> "0"]
    /\ groups = [r \in Rooms |-> {}]
    /\ last_spoken_to = [o \in Orders |-> NoUser]
    /\ lookups = [c \in Conns |-> 0]
    /\ last = NoEvent
    /\ njoin = [c \in Conns |-> 0]
    /\ nleave = [c \in Conns |-> 0]
    /\ nmsgs = 0
    /\ lastIn = NoEvent
    /\ store = <<>>
    /\ nbeats = 0
    /\ hbAge = <<>>
    /\ notify = [s \in Streams |-> NewStream]
    /\ tracker = [t \in Trackers |-> NewTracker]
    /\ nother = 0

Init == InitProgram /\ probe = NoProbe

(***************************************************************************)
(* ChatConsumer.get_user_type: the order lookup, the role, and whether the *)
(* order is saved with last_spoken_to set to the caller.  a is what        *)
(* reading is_employee of an anonymous caller does.                        *)
(***************************************************************************)
\* (a slip: every authenticated caller that is not staff counts as the owner)
get_user_type_owner_unchecked(u, o, a) ==
    IF o \notin Orders THEN [exc |-> "Http404", ret |-> 0, save |-> FALSE]
    ELSE IF IsAnonymous(u) /\ a = "error"
         THEN [exc |-> "AttributeError", ret |-> 0, save |-> FALSE]
    ELSE IF ~IsAnonymous(u) /\ IsEmployee(u)
         THEN [exc |-> "none", ret |-> EMPLOYEE, save |-> TRUE]
    ELSE [exc |-> "none", ret |-> CLIENT, save |-> FALSE]

\* (a slip: staff is recognised before the order is looked up)
get_user_type_staff_first(u, o, a) ==
    IF IsAnonymous(u) /\ a = "error"
    THEN [exc |-> "AttributeError", ret |-> 0, save |-> FALSE]
    ELSE IF ~IsAnonymous(u) /\ IsEmployee(u)
         THEN [exc |-> "none", ret |-> EMPLOYEE, save |-> o \in Orders]
    ELSE IF o \notin Orders
         THEN [exc |-> "Http404", ret |-> 0, save |-> FALSE]
    ELSE IF OrderUser(o) = u
         THEN [exc |-> "none", ret |-> CLIENT, save |-> FALSE]
    ELSE [exc |-> "none", ret |-> 0, save |-> FALSE]

\* (a slip: the order is saved for its owner too)
get_user_type_saves_client(u, o, a) ==
    IF o \notin Orders THEN [exc |-> "Http404", ret |-> 0, save |-> FALSE]
    ELSE IF IsAnonymous(u) /\ a = "error"
         THEN [exc |-> "AttributeError", ret |-> 0, save |-> FALSE]
    ELSE IF ~IsAnonymous(u) /\ IsEmployee(u)
         THEN [exc |-> "none", ret |-> EMPLOYEE, save |-> TRUE]
    ELSE IF OrderUser(o) = u
         THEN [exc |-> "none", ret |-> CLIENT, save |-> TRUE]
    ELSE [exc |-> "none", ret |-> 0, save |-> FALSE]

get_user_type(u, o, a) ==
    IF o \notin Orders THEN [exc |-> "Http404", ret |-> 0, save |-> FALSE]
    ELSE IF IsAnonymous(u) /\ a = "error"
         THEN [exc |-> "AttributeError", ret |-> 0, save |-> FALSE]
    ELSE IF ~IsAnonymous(u) /\ IsEmployee(u)
         THEN [exc |-> "none", ret |-> EMPLOYEE, save |-> TRUE]
    ELSE IF OrderUser(o) = u
         THEN [exc |-> "none", ret |-> CLIENT, save |-> FALSE]
    ELSE [exc |-> "none", ret |-> 0, save |-> FALSE]

(***************************************************************************)
(* The channel layer.  group_send puts the event on the channel of every   *)
(* member of the group; the handlers chat_message, chat_join and           *)
(* chat_leave pass the event to the client as it is (send_json(event)).    *)
(***************************************************************************)
chat_message(event) == event

chat_join(event) == event

chat_leave(event) == event

\* (a slip: the event goes to the members of every group)
GroupReceiversEveryone(room) == UNION {groups[r] : r \in Rooms}

GroupReceivers(room) == groups[room]

\* the connections that group_add has added and group_discard has not yet
\* removed (a rejected connection runs disconnect too, without having joined)
InRegistry(d) ==
    \/ pc[d] \in {"accept", "joined"}
    \/ pc[d] = "leaving" /\ njoin[d] = 1

\* the client-side frame the handler named by the event's type sends
Handled(event) ==
    CASE event.type = "chat_message" -> chat_message(event)
      [] event.type = "chat_join"    -> chat_join(event)
      [] event.type = "chat_leave"   -> chat_leave(event)

group_send(room, event, c) ==
    last' = [type   |-> event.type,
             frame  |-> Handled(event),
             room   |-> room,
             sender |-> c,
             to     |-> GroupReceivers(room),
             inRoom |-> {d \in Conns : InRegistry(d)
                                       /\ RoomGroupName(corder[d]) = room},
             elsewhere |-> {d \in Conns : InRegistry(d)
                                       /\ RoomGroupName(corder[d]) # room},
             closed |-> {d \in Conns : pc[d] = "closed"}]

\* (a slip: the connection is not registered)
group_add_noop(room, c) == groups' = groups

group_add(room, c) ==
    groups' = [groups EXCEPT ![room] = @ \cup {c}]

\* (a slip: the connection stays in the group)
group_discard_noop(room, c) == groups' = groups

group_discard(room, c) ==
    groups' = [groups EXCEPT ![room] = @ \ {c}]

(***************************************************************************)
(* ChatConsumer.connect, lines 54-58: the room name, and close() for an    *)
(* anonymous caller.  The coroutine does not return after close().         *)
(***************************************************************************)
Connect(c, u, o) ==
    /\ pc[c] = "new"
    /\ \A d \in Conns : d < c => pc[d] # "new"
    /\ cuser' = [cuser EXCEPT ![c] = u]
    /\ corder' = [corder EXCEPT ![c] = o]
    /\ pc' = [pc EXCEPT ![c] = "auth"]
    /\ UNCHANGED <<groups, last_spoken_to, lookups, last, njoin, nleave,
                   nmsgs, lastIn, storeVars, notify, tracker, nother, probe>>

(***************************************************************************)
(* ChatConsumer.connect, lines 63-73: get_user_type in the database        *)
(* thread, then the role decides: authorized, or close().  An exception    *)
(* of get_user_type ends the consumer.                                     *)
(***************************************************************************)
Authorize(c, a) ==
    /\ pc[c] = "auth"
    /\ LET r == get_user_type(cuser[c], corder[c], a) IN
         /\ lookups' = [lookups EXCEPT ![c] = @ + 1]
         /\ last_spoken_to' =
                IF r.save THEN [last_spoken_to EXCEPT ![corder[c]] = cuser[c]]
                ELSE last_spoken_to
         /\ pc' = [pc EXCEPT ![c] =
                IF r.exc # "none" THEN "crashed"
                ELSE IF r.ret = EMPLOYEE \/ r.ret = CLIENT THEN "add"
                ELSE "rejected"]
    /\ UNCHANGED <<cuser, corder, groups, last, njoin, nleave, nmsgs, lastIn,
                   storeVars, notify, tracker, nother, probe>>

\* lines 75-77: the Redis connection and group_add
GroupAdd(c) ==
    /\ pc[c] = "add"
    /\ group_add(RoomGroupName(corder[c]), c)
    /\ pc' = [pc EXCEPT ![c] = "accept"]
    /\ UNCHANGED <<cuser, corder, last_spoken_to, lookups, last, njoin,
                   nleave, nmsgs, lastIn, storeVars, notify,
                   tracker, nother, probe>>

\* lines 78-82: accept() and the chat_join broadcast
Join(c) ==
    /\ pc[c] = "accept"
    /\ group_send(RoomGroupName(corder[c]),
                  [type |-> "chat_join", username |-> FullName(cuser[c])], c)
    /\ njoin' = [njoin EXCEPT ![c] = @ + 1]
    /\ pc' = [pc EXCEPT ![c] = "joined"]
    /\ UNCHANGED <<cuser, corder, groups, last_spoken_to, lookups, nleave,
                   nmsgs, lastIn, storeVars, notify, tracker, nother, probe>>

(***************************************************************************)
(* ChatConsumer.disconnect.  The server sends websocket.disconnect for a   *)
(* connection that was accepted and for one that connect() closed; the     *)
(* handler runs after connect() has returned.  Lines 85-90: the chat_leave *)
(* broadcast of a caller that is not anonymous.                            *)
(***************************************************************************)
DisconnectSendsLeave(u) == ~IsAnonymous(u)

Disconnect(c) ==
    /\ pc[c] \in {"joined", "rejected"}
    /\ IF DisconnectSendsLeave(cuser[c])
       THEN /\ group_send(RoomGroupName(corder[c]),
                          [type |-> "chat_leave",
                           username |-> FullName(cuser[c])], c)
            /\ nleave' = [nleave EXCEPT ![c] = @ + 1]
            /\ pc' = [pc EXCEPT ![c] = "leaving"]
       ELSE /\ pc' = [pc EXCEPT ![c] = "closed"]
            /\ UNCHANGED <<last, nleave>>
    /\ UNCHANGED <<cuser, corder, groups, last_spoken_to, lookups, njoin,
                   nmsgs, lastIn, storeVars, notify, tracker, nother, probe>>

\* line 91: group_discard
Discard(c) ==
    /\ pc[c] = "leaving"
    /\ group_discard(RoomGroupName(corder[c]), c)
    /\ pc' = [pc EXCEPT ![c] = "closed"]
    /\ UNCHANGED <<cuser, corder, last_spoken_to, lookups, last, njoin,
                   nleave, nmsgs, lastIn, storeVars, notify,
                   tracker, nother, probe>>

(***************************************************************************)
(* ChatConsumer.receive_json: an inbound event of an accepted connection.  *)
(***************************************************************************)
\* content.get('type')
\* (a slip: an event without a type counts as a heartbeat)
ContentType_default_heartbeat(content) ==
    IF "type" \in DOMAIN content THEN content.type ELSE "heartbeat"

ContentType(content) ==
    IF "type" \in DOMAIN content THEN content.type ELSE "None"

\* '%s_%s' % (self.room_group_name, self.scope['user'].email)
PresenceKey(room, email) == room \o <<"_">> \o email

\* r_conn.setex(key, ttl, '1')
\* (a slip: SET NX semantics, an existing key keeps its time to live)
setex_no_refresh(key, ttl) ==
    store' = [k \in DOMAIN store \cup {key} |->
                 IF k \in DOMAIN store THEN store[k] ELSE ttl]

setex(key, ttl) ==
    store' = [k \in DOMAIN store \cup {key} |->
                 IF k = key THEN ttl ELSE store[k]]

\* the heartbeat of participant u in the room of order o is zero time old
Beat(o, u) ==
    hbAge' = [x \in DOMAIN hbAge \cup {<<o, u>>} |->
                 IF x = <<o, u>> THEN 0 ELSE hbAge[x]]

MessageEvent(c, content) ==
    [type |-> "chat_message", username |-> FullName(cuser[c]),
     message |-> content.message]

\* (a slip: events of a connection that connect() closed are handled too)
receive_json_any_state(c, content) ==
    /\ pc[c] \in {"joined", "rejected"}
    /\ LET typ == ContentType(content) IN
         IF typ = "message"
         THEN /\ group_send(RoomGroupName(corder[c]),
                            MessageEvent(c, content), c)
              /\ UNCHANGED <<store, hbAge>>
         ELSE IF typ = "heartbeat"
         THEN /\ setex(PresenceKey(RoomGroupName(corder[c]),
                                   Email(cuser[c])), TTL)
              /\ Beat(corder[c], cuser[c])
              /\ UNCHANGED last
         ELSE UNCHANGED <<last, store, hbAge>>

receive_json(c, content) ==
    /\ pc[c] = "joined"
    /\ LET typ == ContentType(content) IN
         IF typ = "message"
         THEN /\ group_send(RoomGroupName(corder[c]),
                            MessageEvent(c, content), c)
              /\ UNCHANGED <<store, hbAge>>
         ELSE IF typ = "heartbeat"
         THEN /\ setex(PresenceKey(RoomGroupName(corder[c]),
                                   Email(cuser[c])), TTL)
              /\ Beat(corder[c], cuser[c])
              /\ UNCHANGED last
         ELSE UNCHANGED <<last, store, hbAge>>

ReceiveMessage(c, body) ==
    /\ nmsgs < MaxMsgs
    /\ receive_json(c, [type |-> "message", message |-> body])
    /\ nmsgs' = nmsgs + 1
    /\ lastIn' = [type |-> "message", message |-> body]
    /\ UNCHANGED <<pc, cuser, corder, groups, last_spoken_to, lookups,
                   njoin, nleave, nbeats, notify, tracker, nother, probe>>

ReceiveHeartbeat(c) ==
    /\ nbeats < MaxBeats
    /\ receive_json(c, [type |-> "heartbeat"])
    /\ nbeats' = nbeats + 1
    /\ UNCHANGED <<pc, cuser, corder, groups, last_spoken_to, lookups,
                   njoin, nleave, nmsgs, lastIn, notify,
                   tracker, nother, probe>>

OtherContents == {[type |-> "typing"], [message |-> "hi"]}

ReceiveOther(c, content) ==
    /\ nother < MaxOther
    /\ receive_json(c, content)
    /\ nother' = nother + 1
    /\ UNCHANGED <<pc, cuser, corder, groups, last_spoken_to, lookups,
                   njoin, nleave, nmsgs, lastIn, nbeats, notify, tracker,
                   probe>>

(***************************************************************************)
(* The chat specification: every chat connection, any caller, any order.   *)
(***************************************************************************)
NextChat ==
    \/ \E c \in Conns, u \in Users, o \in OrderIds : Connect(c, u, o)
    \/ \E c \in Conns, a \in AnonIsEmployeeOutcomes : Authorize(c, a)
    \/ \E c \in Conns : GroupAdd(c)
    \/ \E c \in Conns : Join(c)
    \/ \E c \in Conns, b \in Bodies : ReceiveMessage(c, b)
    \/ \E c \in Conns, x \in OtherContents : ReceiveOther(c, x)
    \/ \E c \in Conns : Disconnect(c)
    \/ \E c \in Conns : Discard(c)

SpecChat == Init /\ [][NextChat]_vars

(***************************************************************************)
(* ChatNotifyConsumer.  is_employee_func and handle, lines 141-167.        *)
(***************************************************************************)
\* (a slip: the staff test is left out)
is_employee_func_any_user(u) == ~IsAnonymous(u)

is_employee_func(u) == ~IsAnonymous(u) /\ IsEmployee(u)

\* self.scope.get('query_string') == 'nopoll'
IsNoPoll(q) == q = [kind |-> "str", text |-> "nopoll"]

Handle(s, u, q) ==
    /\ notify[s].pc = "new"
    /\ notify' = [notify EXCEPT ![s] =
          IF is_employee_func(u)
          THEN [@ EXCEPT !.user = u, !.headers = TRUE, !.is_streaming = TRUE,
                         !.no_poll = IsNoPoll(q), !.pc = "loop"]
          ELSE [@ EXCEPT !.user = u, !.pc = "rejected"]]
    /\ UNCHANGED <<chatVars, storeVars, tracker, nother, probe>>

(***************************************************************************)
(* ChatNotifyConsumer.stream, lines 178-201.                               *)
(***************************************************************************)
\* (a slip: str.split(sep, 2), the rest of the string stays whole)
Split_maxsplit2(str, sep) ==
    LET at == {i \in 1..Len(str) : str[i] = sep}
        i1 == CHOOSE i \in at : \A j \in at : i <= j
        i2 == CHOOSE i \in at \ {i1} : \A j \in at \ {i1} : i <= j
    IN  IF at = {} THEN <<str>>
        ELSE IF at = {i1}
             THEN <<SubSeq(str, 1, i1 - 1), SubSeq(str, i1 + 1, Len(str))>>
        ELSE <<SubSeq(str, 1, i1 - 1), SubSeq(str, i1 + 1, i2 - 1),
               SubSeq(str, i2 + 1, Len(str))>>

\* str.split(sep)
RECURSIVE Split(_, _)
Split(str, sep) ==
    IF \A i \in 1..Len(str) : str[i] # sep THEN <<str>>
    ELSE LET i == CHOOSE i \in 1..Len(str) :
                     str[i] = sep /\ \A j \in 1..(i - 1) : str[j] # sep
         IN <<SubSeq(str, 1, i - 1)>>
                \o Split(SubSeq(str, i + 1, Len(str)), sep)

\* ", ".join(emails)
RECURSIVE JoinWith(_, _)
JoinWith(strs, sep) ==
    IF strs = <<>> THEN <<>>
    ELSE IF Len(strs) = 1 THEN strs[1]
    ELSE strs[1] \o <<sep>> \o JoinWith(Tail(strs), sep)

\* the orders in which r_conn.keys() may return a set of keys
Perms(S) ==
    {f \in [1..Cardinality(S) -> S] :
        \A i, j \in 1..Cardinality(S) : i # j => f[i] # f[j]}

\* lines 184-187: presences[order_id] gets user_email, a dict in insertion order
AddPresence(pres, order_id, user_email) ==
    IF \E i \in 1..Len(pres) : pres[i].order_id = order_id
    THEN [i \in 1..Len(pres) |->
            IF pres[i].order_id = order_id
            THEN [pres[i] EXCEPT !.emails = Append(@, user_email)]
            ELSE pres[i]]
    ELSE Append(pres, [order_id |-> order_id, emails |-> <<user_email>>])

\* lines 182-183: the keys that "_, order_id, user_email = split" cannot unpack
BadKeys(keys) == {i \in 1..Len(keys) : Len(Split(keys[i], "_")) # 3}

\* lines 181-187
RECURSIVE Presences(_)
Presences(keys) ==
    IF keys = <<>> THEN <<>>
    ELSE LET parts == Split(keys[Len(keys)], "_") IN
         AddPresence(Presences(SubSeq(keys, 1, Len(keys) - 1)),
                     parts[2], parts[3])

\* lines 190-193: reverse('cs_chat', ...) and '%s (%s)'
\* (a slip: only the first participant of the room is listed)
Entry_first_email(p) ==
    [link |-> <<"cs_chat">> \o p.order_id,
     text |-> p.order_id \o <<" (">> \o p.emails[1] \o <<")">>]

Entry(p) ==
    [link |-> <<"cs_chat">> \o p.order_id,
     text |-> p.order_id \o <<" (">> \o JoinWith(p.emails, ", ") \o <<")">>]

\* line 194: "data: %s\n\n" % json.dumps(data)
Payload(data) == [prefix |-> "data: ", json |-> data, suffix |-> "\n\n"]

\* lines 179-187: the loop test, the scan of Redis and the grouping
Scan(s, keys) ==
    /\ notify[s].pc = "loop"
    /\ notify' = [notify EXCEPT ![s] =
          IF ~notify[s].is_streaming THEN [@ EXCEPT !.pc = "done"]
          ELSE IF BadKeys(keys) # {} THEN [@ EXCEPT !.pc = "crashed"]
          ELSE IF keys = <<>>
               THEN [@ EXCEPT !.presences = <<>>, !.data = <<>>, !.k = 0,
                              !.spun = TRUE]
          ELSE [@ EXCEPT !.presences = Presences(keys), !.data = <<>>,
                         !.k = 0, !.pc = "emit"]]
    /\ UNCHANGED <<chatVars, storeVars, tracker, nother, probe>>

\* lines 189-201: one pass of the loop over presences.items()
Emit(s) ==
    /\ notify[s].pc = "emit"
    /\ notify[s].nframes < MaxFrames
    /\ LET n == notify[s]
           data == Append(n.data, Entry(n.presences[n.k + 1]))
           more == IF n.no_poll THEN FALSE ELSE n.is_streaming
       IN notify' = [notify EXCEPT ![s] =
            [@ EXCEPT !.data = data,
                      !.k = n.k + 1,
                      !.lastFrame = Payload(data),
                      !.lastMore = more,
                      !.finished = n.finished \/ ~more,
                      !.nframes = n.nframes + 1,
                      !.afterFlip = n.afterFlip + (IF n.disc THEN 1 ELSE 0),
                      !.sinceFrame = 0,
                      !.is_streaming = IF n.no_poll THEN FALSE
                                       ELSE n.is_streaming,
                      !.remain = IF n.no_poll THEN 0 ELSE SleepInterval,
                      !.pc = IF ~n.no_poll THEN "sleep"
                             ELSE IF n.k + 1 < Len(n.presences) THEN "emit"
                             ELSE "loop"]]
    /\ UNCHANGED <<chatVars, storeVars, tracker, nother, probe>>

\* line 201: asyncio.sleep(5) returns
Wake(s) ==
    /\ notify[s].pc = "sleep"
    /\ notify[s].remain = 0
    /\ notify' = [notify EXCEPT ![s].pc =
          IF notify[s].k < Len(notify[s].presences) THEN "emit" ELSE "loop"]
    /\ UNCHANGED <<chatVars, storeVars, tracker, nother, probe>>

\* ChatNotifyConsumer.disconnect, lines 203-205
StreamDisconnect(s) ==
    /\ notify[s].headers
    /\ ~notify[s].disc
    /\ notify' = [notify EXCEPT ![s].is_streaming = FALSE, ![s].disc = TRUE]
    /\ UNCHANGED <<chatVars, storeVars, tracker, nother, probe>>

(***************************************************************************)
(* Time.  One unit passes while every streaming task sleeps, has ended, or *)
(* spins at the top of its loop over an empty store; the code between two  *)
(* awaits takes no time.  Redis drops a key when its time to live is over. *)
(***************************************************************************)
Idle(s) ==
    \/ notify[s].pc \in {"new", "rejected", "done", "crashed"}
    \/ notify[s].pc = "sleep" /\ notify[s].remain > 0
    \/ notify[s].pc = "loop" /\ notify[s].is_streaming /\ DOMAIN store = {}

Tick ==
    /\ \A s \in Streams : Idle(s)
    /\ store' = [k \in {x \in DOMAIN store : store[x] > 1} |-> store[k] - 1]
    /\ hbAge' = [k \in DOMAIN hbAge |->
                    IF hbAge[k] > TTL THEN hbAge[k] ELSE hbAge[k] + 1]
    /\ notify' = [s \in Streams |->
          [notify[s] EXCEPT
              !.remain = IF @ > 0 THEN @ - 1 ELSE 0,
              !.sinceFrame = IF notify[s].pc \in {"loop", "sleep"}
                                /\ @ <= SleepInterval
                             THEN @ + 1 ELSE @]]
    /\ UNCHANGED <<chatVars, nbeats, tracker, nother, probe>>

(***************************************************************************)
(* The presence specification: the callers that can join a chat, their     *)
(* heartbeats, the presence streams and time.                              *)
(***************************************************************************)
PresenceConns == {1, 2}

PresenceCallers == {<<"emp", "1">>, <<"emp", "2">>, <<"cust1", "1">>,
                    <<"cust2", "2">>}

NextNotify ==
    \/ \E c \in PresenceConns, x \in PresenceCallers : Connect(c, x[1], x[2])
    \/ \E c \in PresenceConns, a \in AnonIsEmployeeOutcomes : Authorize(c, a)
    \/ \E c \in PresenceConns : GroupAdd(c)
    \/ \E c \in PresenceConns : Join(c)
    \/ \E c \in PresenceConns : ReceiveHeartbeat(c)
    \/ \E s \in Streams, u \in Users, q \in QueryStrings : Handle(s, u, q)
    \/ \E s \in Streams, keys \in Perms(DOMAIN store) : Scan(s, keys)
    \/ \E s \in Streams : Emit(s)
    \/ \E s \in Streams : Wake(s)
    \/ \E s \in Streams : StreamDisconnect(s)
    \/ Tick

SpecNotify == Init /\ [][NextNotify]_vars

(***************************************************************************)
(* The roles of the chat callers, from the data of the database.           *)
(***************************************************************************)
\* authenticated, the order exists, and the caller is staff or its owner
AuthorizedCaller(c) ==
    /\ cuser[c] \in (Users \cup StaffUsers) \ {"anon"}
    /\ corder[c] \in Orders
    /\ (cuser[c] \in StaffUsers \/ OrderUser(corder[c]) = cuser[c])

\* authenticated, the order exists, and the caller is neither staff nor owner
UnauthorizedCaller(c) ==
    /\ cuser[c] \in Users \ {"anon", "emp"}
    /\ corder[c] \in Orders
    /\ OrderUser(corder[c]) # cuser[c]

(***************************************************************************)
(* C1.  A message event of a joined connection c of room R: a chat_message *)
(* event with c's display name and the message body is put on the channel  *)
(* of every connection in R's group at that moment, c included, and of no  *)
(* connection of another room or of no room.                               *)
(***************************************************************************)
C1_MessageReachesRoom ==
    last.type = "chat_message" =>
        /\ last.frame = [type     |-> "chat_message",
                         username |-> FullName(cuser[last.sender]),
                         message  |-> lastIn.message]
        /\ last.room = RoomGroupName(corder[last.sender])
        /\ last.sender \in last.to
        /\ last.to = last.inRoom
        /\ last.to \cap last.elsewhere = {}

C1_Witness ==
    /\ last.type = "chat_message"
    /\ Cardinality(last.to) >= 2
    /\ last.elsewhere # {}
    /\ last.frame.message = "yo"

(***************************************************************************)
(* C3.  The disconnect of a joined connection c of room R sends exactly    *)
(* one chat_leave with c's display name to R and removes c from the group; *)
(* no group_send made after the handler has ended reaches c.               *)
(***************************************************************************)
C3_DisconnectLeavesOnce ==
    /\ \A c \in Conns :
          njoin[c] = 1 /\ pc[c] \in {"leaving", "closed"} => nleave[c] = 1
    /\ \A c \in Conns :
          njoin[c] = 1 /\ pc[c] = "closed" =>
              \A r \in Rooms : c \notin groups[r]
    /\ last.type = "chat_leave" =>
          /\ last.frame = [type     |-> "chat_leave",
                           username |-> FullName(cuser[last.sender])]
          /\ last.room = RoomGroupName(corder[last.sender])
    /\ last.type # "none" => last.to \cap last.closed = {}

C3_Witness ==
    /\ last.type = "chat_message"
    /\ \E c \in last.closed :
          /\ njoin[c] = 1
          /\ nleave[c] = 1
          /\ RoomGroupName(corder[c]) = last.room
    /\ last.to # {}

(***************************************************************************)
(* C9.  A chat connection of an unauthorized caller (authenticated,        *)
(* neither staff nor the owner of the order) causes no broadcast at all,   *)
(* from connect through its disconnect handler.                            *)
(***************************************************************************)
C9_UnauthorizedNeverBroadcasts ==
    \A c \in Conns :
        UnauthorizedCaller(c) =>
            /\ njoin[c] = 0
            /\ nleave[c] = 0
            /\ (last.type # "none" => last.sender # c)

(***************************************************************************)
(* C10.  For an anonymous caller the session goes from CONNECTING to       *)
(* CLOSED: no order lookup and no order mutation is made for it.           *)
(***************************************************************************)
C10_AnonymousNeverLooksUp ==
    \A c \in Conns :
        IsAnonymous(cuser[c]) =>
            /\ lookups[c] = 0
            /\ \A o \in Orders : last_spoken_to[o] # cuser[c]

(***************************************************************************)
(* The connect specification: the life of every chat connection without    *)
(* its inbound events, and the handshake of the presence stream.           *)
(***************************************************************************)
NextAuth ==
    \/ \E c \in Conns, u \in Users, o \in OrderIds : Connect(c, u, o)
    \/ \E c \in Conns, a \in AnonIsEmployeeOutcomes : Authorize(c, a)
    \/ \E c \in Conns : GroupAdd(c)
    \/ \E c \in Conns : Join(c)
    \/ \E c \in Conns : Disconnect(c)
    \/ \E c \in Conns : Discard(c)
    \/ \E s \in Streams, u \in Users, q \in QueryStrings : Handle(s, u, q)
    \/ \E s \in Streams : StreamDisconnect(s)

SpecAuth == Init /\ [][NextAuth]_vars

(***************************************************************************)
(* C2.  A connect attempt of an unauthorized caller (anonymous, or         *)
(* authenticated and neither staff nor the owner of the order, or not      *)
(* staff on the notify stream) has produced no chat_join broadcast, and    *)
(* its connection is in no group of the channel layer.                     *)
(***************************************************************************)
C2_ChatCallerStaysOut(c) ==
    /\ njoin[c] = 0
    /\ \A r \in Rooms : c \notin groups[r]
    /\ last.type = "chat_join" => last.sender # c

C2_UnauthorizedNeverJoins ==
    /\ [](\A c \in Conns :
            IsAnonymous(cuser[c]) \/ UnauthorizedCaller(c)
                => C2_ChatCallerStaysOut(c))
    /\ [][\A s \in Streams :
            notify[s].pc = "new" /\ notify'[s].pc = "rejected"
                => UNCHANGED <<groups, last, njoin>>]_vars

C2_Witness ==
    /\ \E c \in Conns : UnauthorizedCaller(c) /\ pc[c] = "closed"
    /\ \E c \in Conns : IsAnonymous(cuser[c]) /\ pc[c] \in {"crashed", "closed"}
    /\ \E s \in Streams : notify[s].pc = "rejected" /\ notify[s].user = "cust1"
    /\ last.type = "chat_join"

(***************************************************************************)
(* C4.  A heartbeat of participant P in room R creates or refreshes the    *)
(* presence key of (R, P) with a time to live of 10; a scan made less than *)
(* 10 after the heartbeat lists P for R, and a scan made more than 10      *)
(* after P's last heartbeat does not.                                      *)
(***************************************************************************)
KeyOf(x) == PresenceKey(RoomGroupName(x[1]), Email(x[2]))

Listed(pres, x) ==
    \E i \in 1..Len(pres) :
        /\ pres[i].order_id = <<x[1]>>
        /\ \E j \in 1..Len(pres[i].emails) : pres[i].emails[j] = Email(x[2])

C4_KeyLivesTenAfterBeat ==
    \A x \in DOMAIN hbAge :
        /\ hbAge[x] < TTL =>
              KeyOf(x) \in DOMAIN store /\ store[KeyOf(x)] = TTL - hbAge[x]
        /\ hbAge[x] > TTL => KeyOf(x) \notin DOMAIN store

C4_HeartbeatPresence ==
    /\ []C4_KeyLivesTenAfterBeat
    /\ [][\A s \in Streams :
            notify[s].pc = "loop" /\ notify'[s].pc = "emit" =>
                \A x \in DOMAIN hbAge :
                    /\ hbAge[x] < TTL => Listed(notify'[s].presences, x)
                    /\ hbAge[x] > TTL => ~Listed(notify'[s].presences, x)]_vars

C4_Witness ==
    \E s \in Streams, x, y \in DOMAIN hbAge :
        /\ notify[s].pc = "emit" /\ notify[s].k = 0
        /\ hbAge[x] = TTL - 1 /\ Listed(notify[s].presences, x)
        /\ hbAge[y] > TTL /\ ~Listed(notify[s].presences, y)

(***************************************************************************)
(* C5.  A presence stream opened by staff in one-shot mode emits exactly   *)
(* one frame and then closes, whatever the number of rooms with live keys. *)
(***************************************************************************)
C5_OneShotOneFrame ==
    \A s \in Streams :
        notify[s].no_poll =>
            /\ notify[s].nframes <= 1
            /\ (notify[s].pc = "done" /\ ~notify[s].disc
                   => notify[s].nframes = 1)

(***************************************************************************)
(* C6.  Once disconnect has set is_streaming to false, the streaming task  *)
(* sends no further frame.                                                 *)
(***************************************************************************)
C6_NoFrameAfterDisconnect ==
    \A s \in Streams : notify[s].afterFlip = 0

(***************************************************************************)
(* C7.  A continuous stream emits a frame at least once per interval of 5  *)
(* from its start until disconnect, for every content of the store.        *)
(***************************************************************************)
C7_FrameEveryInterval ==
    \A s \in Streams :
        /\ notify[s].pc \in {"loop", "emit", "sleep"}
        /\ ~notify[s].no_poll
        /\ ~notify[s].disc
        => notify[s].sinceFrame <= SleepInterval

(***************************************************************************)
(* C8.  On the notify stream a caller that is anonymous or not staff is    *)
(* rejected: no headers, no streaming task, no frame; headers and a task   *)
(* exist only for a caller that is authenticated and staff.                *)
(***************************************************************************)
C8_OnlyStaffStreams ==
    \A s \in Streams :
        /\ notify[s].pc # "new" /\ notify[s].user # "emp" =>
              /\ notify[s].pc = "rejected"
              /\ ~notify[s].headers
              /\ ~notify[s].is_streaming
              /\ notify[s].nframes = 0
        /\ notify[s].headers \/ notify[s].pc \notin {"new", "rejected"}
              => notify[s].user = "emp"

C8_Witness ==
    \E s \in Streams :
        /\ notify[s].pc = "rejected"
        /\ notify[s].user = "cust1"
        /\ \E k \in DOMAIN store : store[k] < TTL

(***************************************************************************)
(* OrderTrackerConsumer, lines 211-242.                                    *)
(***************************************************************************)
\* (a slip: staff passes too, as in ChatConsumer.get_user_type)
verify_user_staff_too(u, o) ==
    IF o \notin Orders THEN [exc |-> "Http404", ret |-> FALSE]
    ELSE [exc |-> "none", ret |-> (OrderUser(o) = u \/ IsEmployee(u))]

\* verify_user: the order lookup and order.user == user
verify_user(u, o) ==
    IF o \notin Orders THEN [exc |-> "Http404", ret |-> FALSE]
    ELSE [exc |-> "none", ret |-> (OrderUser(o) = u)]

\* lines 228-231 and 241-242: the order id, verify_user in the database
\* thread, and StopConsumer for a caller that is not authorized
TrackerHandle(t, u, o) ==
    /\ tracker[t].pc = "new"
    /\ LET v == verify_user(u, o) IN
         tracker' = [tracker EXCEPT ![t] =
            [@ EXCEPT !.user = u, !.order_id = o,
                      !.pc = IF v.exc # "none" THEN "crashed"
                             ELSE IF v.ret THEN "query"
                             ELSE "rejected"]]
    /\ UNCHANGED <<chatVars, storeVars, notify, nother, probe>>

\* lines 216-225 and 235: the GET to the upstream resource; it answers with
\* a body, or the request fails and the exception ends the consumer
UpstreamOutcomes == [ok : {TRUE}, body : Payloads] \cup {[ok |-> FALSE]}

TrackerQuery(t, out) ==
    /\ tracker[t].pc = "query"
    /\ tracker' = [tracker EXCEPT ![t] =
          IF out.ok
          THEN [@ EXCEPT !.nreq = @ + 1, !.payload = out.body,
                         !.pc = "respond"]
          ELSE [@ EXCEPT !.nreq = @ + 1, !.pc = "crashed"]]
    /\ UNCHANGED <<chatVars, storeVars, notify, nother, probe>>

\* line 240: send_response(200, payload)
TrackerRespond(t) ==
    /\ tracker[t].pc = "respond"
    /\ tracker' = [tracker EXCEPT ![t] =
          [@ EXCEPT !.responses =
                        Append(@, [status |-> 200,
                                   body |-> tracker[t].payload]),
                    !.pc = "done"]]
    /\ UNCHANGED <<chatVars, storeVars, notify, nother, probe>>

NextTracker ==
    \/ \E t \in Trackers, u \in Users, o \in OrderIds : TrackerHandle(t, u, o)
    \/ \E t \in Trackers, out \in UpstreamOutcomes : TrackerQuery(t, out)
    \/ \E t \in Trackers : TrackerRespond(t)

SpecTracker == Init /\ [][NextTracker]_vars

(***************************************************************************)
(* C11.  The order-tracker relay makes the upstream request and sends one  *)
(* response with status 200 exactly for the owning customer of the order;  *)
(* for every other caller no upstream request is made and no body is       *)
(* relayed.                                                                *)
(***************************************************************************)
TrackerOwner(t) ==
    /\ tracker[t].order_id \in Orders
    /\ OrderUser(tracker[t].order_id) = tracker[t].user

C11_RelayOnlyForOwner ==
    \A t \in Trackers :
        /\ tracker[t].nreq <= 1
        /\ Len(tracker[t].responses) <= 1
        /\ tracker[t].pc # "new" /\ ~TrackerOwner(t) =>
              /\ tracker[t].nreq = 0
              /\ tracker[t].responses = <<>>
              /\ tracker[t].pc \in {"rejected", "crashed"}
        /\ tracker[t].pc # "new" /\ TrackerOwner(t) =>
              /\ tracker[t].pc \in {"query", "respond", "done", "crashed"}
              /\ tracker[t].pc \in {"respond", "done"} => tracker[t].nreq = 1
              /\ tracker[t].pc = "crashed" =>
                    tracker[t].nreq = 1 /\ tracker[t].responses = <<>>
              /\ tracker[t].pc = "done" =>
                    tracker[t].responses =
                        <<[status |-> 200, body |-> tracker[t].payload]>>

C11_Witness ==
    \E t, w \in Trackers :
        /\ TrackerOwner(t) /\ tracker[t].pc = "done"
        /\ tracker[t].responses =
              <<[status |-> 200, body |-> "parcel delivered"]>>
        /\ tracker[w].pc = "rejected" /\ tracker[w].user = "emp"

(***************************************************************************)
(* C12.  An authorized caller that connects to room R is added to R's      *)
(* group before its chat_join is broadcast: the chat_join with its display *)
(* name reaches every connection already in R and the joining connection   *)
(* itself, and group_add leaves R's group as its former members plus the   *)
(* new connection.                                                         *)
(***************************************************************************)
C12_AddedBeforeJoin ==
    /\ \A c \in Conns :
          /\ pc[c] = "accept" =>
                c \in groups[RoomGroupName(corder[c])] /\ njoin[c] = 0
          /\ pc[c] \in {"add", "accept", "joined"} => AuthorizedCaller(c)
    /\ last.type = "chat_join" =>
          /\ last.frame = [type     |-> "chat_join",
                           username |-> FullName(cuser[last.sender])]
          /\ last.room = RoomGroupName(corder[last.sender])
          /\ last.sender \in last.to
          /\ last.inRoom \subseteq last.to
          /\ last.to \cap last.elsewhere = {}

C12_JoinAfterAdd ==
    /\ []C12_AddedBeforeJoin
    /\ [][\A c \in Conns :
            pc[c] = "add" /\ pc'[c] = "accept" =>
                /\ groups'[RoomGroupName(corder[c])] =
                       groups[RoomGroupName(corder[c])] \cup {c}
                /\ \A r \in Rooms \ {RoomGroupName(corder[c])} :
                       groups'[r] = groups[r]]_vars

C12_Witness ==
    /\ last.type = "chat_join"
    /\ Cardinality(last.to) >= 2
    /\ last.elsewhere # {}
    /\ pc[last.sender] = "joined"
    /\ cuser[last.sender] = "cust2"

(***************************************************************************)
(* C13.  A connect that names an order that does not exist fails with      *)
(* Http404 for every caller, staff included: connect() ends in the         *)
(* exception, so the handshake is not accepted, the connection is not      *)
(* added to a group, no chat_join is sent and no order is written.         *)
(***************************************************************************)
C13_MissingOrderStaysOut ==
    \A c \in Conns :
        pc[c] # "new" /\ corder[c] \notin Orders =>
            /\ pc[c] \in {"auth", "crashed"}
            /\ njoin[c] = 0
            /\ \A r \in Rooms : c \notin groups[r]
            /\ last.type # "none" => last.sender # c

C13_MissingOrderNotFound ==
    /\ []C13_MissingOrderStaysOut
    /\ [][\A c \in Conns :
            pc[c] = "auth" /\ pc'[c] # "auth" /\ corder[c] \notin Orders =>
                /\ \A a \in AnonIsEmployeeOutcomes :
                       get_user_type(cuser[c], corder[c], a).exc = "Http404"
                /\ pc'[c] = "crashed"
                /\ UNCHANGED <<last_spoken_to, groups, last, njoin>>]_vars

C13_Witness ==
    \E c, d \in Conns :
        /\ pc[c] = "crashed" /\ cuser[c] = "emp" /\ corder[c] \notin Orders
        /\ pc[d] = "crashed" /\ cuser[d] = "cust1" /\ corder[d] \notin Orders
        /\ \E e \in Conns : pc[e] = "joined"

(***************************************************************************)
(* C14.  Every streaming task ends.  A one-shot task leaves the loop after *)
(* one scan iteration without a disconnect, whatever the store holds, also *)
(* when it holds no key: once an iteration is over, the task has ended or  *)
(* is_streaming is false, so that the next loop test ends it.  A           *)
(* continuous task that stands at the loop test after disconnect finds     *)
(* is_streaming false.                                                     *)
(***************************************************************************)
C14_TaskTerminates ==
    \A s \in Streams :
        /\ notify[s].no_poll /\ notify[s].spun /\ ~notify[s].disc
              => notify[s].pc = "done" \/ ~notify[s].is_streaming
        /\ notify[s].disc /\ notify[s].pc = "loop"
              => ~notify[s].is_streaming

(***************************************************************************)
(* C15.  One scan iteration of a continuous stream that found n >= 1 rooms *)
(* and is not disconnected meanwhile emits exactly n frames, one per pass  *)
(* of the for loop, and the k-th frame holds exactly k entries: those of   *)
(* the first k rooms in the order of presences, each with the room's order *)
(* id and every email read for the room in that scan.                      *)
(***************************************************************************)
C15_Contains(text, sub) ==
    \E i \in 1..(Len(text) - Len(sub) + 1) :
        SubSeq(text, i, i + Len(sub) - 1) = sub

C15_Describes(e, p) ==
    /\ e.link = <<"cs_chat">> \o p.order_id
    /\ SubSeq(e.text, 1, Len(p.order_id)) = p.order_id
    /\ \A j \in DOMAIN p.emails : C15_Contains(e.text, p.emails[j])
    /\ Cardinality({i \in DOMAIN e.text : e.text[i] = ", "})
           = Len(p.emails) - 1

C15_FrameOfPass(s) ==
    LET n == notify[s] IN
    ~n.no_poll /\ ~n.disc /\ n.pc = "sleep" =>
        /\ 1 <= n.k /\ n.k <= Len(n.presences)
        /\ Len(n.lastFrame.json) = n.k
        /\ \A i \in 1..n.k : C15_Describes(n.lastFrame.json[i], n.presences[i])

C15_FramePerRoom(s) ==
    LET n == notify[s]
        m == notify'[s]
    IN  ~n.no_poll /\ ~m.disc =>
            /\ m.nframes # n.nframes =>
                   m.nframes = n.nframes + 1 /\ m.k = n.k + 1 /\ m.pc = "sleep"
            /\ m.k # n.k /\ m.k # 0 => m.nframes = n.nframes + 1
            /\ n.pc = "loop" /\ m.pc = "emit" =>
                   m.k = 0 /\ Len(m.presences) >= 1
            /\ n.pc = "sleep" /\ m.pc = "loop" => n.k = Len(n.presences)
            /\ n.pc = "sleep" /\ m.pc = "emit" => n.k < Len(n.presences)
            /\ n.pc = "emit" /\ m.pc # "emit" => m.pc = "sleep"

C15_CumulativeFrames ==
    /\ [](\A s \in Streams : C15_FrameOfPass(s))
    /\ [][\A s \in Streams : C15_FramePerRoom(s)]_vars

C15_Witness ==
    \E s \in Streams :
        LET n == notify[s] IN
        /\ ~n.no_poll /\ ~n.disc /\ n.pc = "loop"
        /\ n.k = 2 /\ Len(n.presences) = 2 /\ n.nframes = 2
        /\ Len(n.lastFrame.json) = 2

(***************************************************************************)
(* The event specification: two chat connections with two staff accounts,  *)
(* an owner, callers that connect() turns away, and every inbound event.   *)
(***************************************************************************)
EventConns == {1, 2}

EventCallers == {<<"emp", "1">>, <<"emp2", "1">>, <<"emp2", "2">>,
                 <<"cust1", "1">>, <<"cust1", "2">>, <<"cust2", "2">>,
                 <<"anon", "1">>, <<"cust2", "3">>}

NextEvents ==
    \/ \E c \in EventConns, x \in EventCallers : Connect(c, x[1], x[2])
    \/ \E c \in EventConns, a \in AnonIsEmployeeOutcomes : Authorize(c, a)
    \/ \E c \in EventConns : GroupAdd(c)
    \/ \E c \in EventConns : Join(c)
    \/ \E c \in EventConns, body \in Bodies : ReceiveMessage(c, body)
    \/ \E c \in EventConns : ReceiveHeartbeat(c)
    \/ \E c \in EventConns, content \in OtherContents :
          ReceiveOther(c, content)
    \/ \E c \in EventConns : Disconnect(c)
    \/ \E c \in EventConns : Discard(c)

SpecEvents == Init /\ [][NextEvents]_vars

(***************************************************************************)
(* C16.  order.last_spoken_to is written only by the chat connect of a     *)
(* staff caller on an existing order, which sets it to that caller; the    *)
(* connect of any other caller and every message, heartbeat and disconnect *)
(* leave it as it is.  So it names the latest staff caller that connected  *)
(* to the order, or nobody.                                                *)
(***************************************************************************)
C16_StaffConnect(c, o) ==
    /\ pc[c] = "auth" /\ pc'[c] # "auth"
    /\ cuser[c] \in StaffUsers /\ corder[c] = o

C16_NamesStaffCaller ==
    \A o \in Orders :
        /\ last_spoken_to[o] \in StaffUsers \cup {NoUser}
        /\ last_spoken_to[o] # NoUser =>
              \E c \in Conns : /\ cuser[c] = last_spoken_to[o]
                               /\ corder[c] = o
                               /\ pc[c] \notin {"new", "auth"}

C16_LastSpokenTo ==
    /\ []C16_NamesStaffCaller
    /\ [][\A o \in Orders :
            /\ last_spoken_to'[o] # last_spoken_to[o] =>
                  \E c \in Conns : C16_StaffConnect(c, o)
            /\ \A c \in Conns :
                  C16_StaffConnect(c, o) =>
                      pc'[c] = "add" /\ last_spoken_to'[o] = cuser[c]]_vars

C16_Witness ==
    /\ last_spoken_to["1"] = "emp2"
    /\ last_spoken_to["2"] = NoUser
    /\ \E c, d \in Conns :
          /\ cuser[c] = "emp" /\ corder[c] = "1" /\ pc[c] = "joined"
          /\ cuser[d] = "emp2" /\ corder[d] = "1" /\ pc[d] = "closed"
    /\ nmsgs >= 1 /\ nbeats >= 1

(***************************************************************************)
(* C17.  An inbound event whose type is missing, or is neither message nor *)
(* heartbeat, is ignored without an error: nothing is sent to a group, the *)
(* Redis keys and the groups stay as they are, and the connection stays    *)
(* joined.                                                                 *)
(***************************************************************************)
C17_OtherEventIgnored ==
    [][nother' # nother =>
          /\ \E c \in Conns : pc[c] = "joined"
          /\ UNCHANGED <<pc, groups, last, store, hbAge, njoin, nleave,
                         nmsgs, nbeats, last_spoken_to>>]_vars

C17_Witness ==
    /\ nother >= 1
    /\ DOMAIN store # {}
    /\ last.type = "chat_message"
    /\ \E c \in Conns : pc[c] = "joined" /\ c \in groups[RoomGroupName(corder[c])]

(***************************************************************************)
(* The presence key on its own: a key as the heartbeat branch of           *)
(* receive_json writes it, for any order id and any email of up to         *)
(* MaxEmailLen tokens, then read as one scan of stream() reads it.         *)
(***************************************************************************)
EmailTokens == {"ann", "@mail", "_"}

EmailsUpTo(n) == UNION {[1..m -> EmailTokens] : m \in 0..n}

InitKey ==
    /\ InitProgram
    /\ probe \in {[stage |-> "input", order_id |-> o, email |-> e] :
                     o \in OrderIds, e \in EmailsUpTo(MaxEmailLen)}

\* lines 105-106: the key of setex
KeyWrite ==
    /\ probe.stage = "input"
    /\ probe' = [stage |-> "written", order_id |-> probe.order_id,
                 email |-> probe.email,
                 key |-> PresenceKey(RoomGroupName(probe.order_id),
                                     probe.email)]
    /\ UNCHANGED <<chatVars, storeVars, notify, tracker, nother>>

\* lines 181-187: the scan finds this key alone
KeyParse ==
    /\ probe.stage = "written"
    /\ probe' = [stage |-> "parsed", order_id |-> probe.order_id,
                 email |-> probe.email, key |-> probe.key,
                 result |-> IF BadKeys(<<probe.key>>) # {}
                            THEN [exc |-> "ValueError", presences |-> <<>>]
                            ELSE [exc |-> "none",
                                  presences |-> Presences(<<probe.key>>)]]
    /\ UNCHANGED <<chatVars, storeVars, notify, tracker, nother>>

NextKey == KeyWrite \/ KeyParse

SpecKey == InitKey /\ [][NextKey]_vars

(***************************************************************************)
(* C18.  The key 'customer-service_<order_id>_<email>' that a heartbeat    *)
(* writes is split on "_" by the scan into exactly three parts that give   *)
(* back the same order id and email.  When the email itself holds "_" the  *)
(* split does not give three parts and the scan ends in an error, never in *)
(* a presence with another pair.                                           *)
(***************************************************************************)
C18_KeyRoundTrip ==
    probe.stage = "parsed" =>
        IF \E i \in DOMAIN probe.email : probe.email[i] = "_"
        THEN probe.result = [exc |-> "ValueError", presences |-> <<>>]
        ELSE /\ Len(Split(probe.key, "_")) = 3
             /\ probe.result =
                    [exc |-> "none",
                     presences |-> <<[order_id |-> <<probe.order_id>>,
                                      emails   |-> <<probe.email>>]>>]

C18_Witness ==
    /\ probe.stage = "parsed"
    /\ probe.email = <<"ann", "_", "@mail">>
    /\ probe.result.exc = "ValueError"

(***************************************************************************)
(* C19.  Every participant that a frame lists for a room has a live        *)
(* presence key at the moment the frame is sent, also when the scan found  *)
(* several rooms and the task slept between their frames.  (The i-th entry *)
(* of a frame is made from presences[i]; sinceFrame = 0 says no time has   *)
(* passed since the frame was sent.)                                       *)
(***************************************************************************)
C19_FrameListsLiveKeys ==
    \A s \in Streams :
        LET n == notify[s] IN
        n.nframes > 0 /\ n.sinceFrame = 0 /\ n.pc \in {"emit", "sleep", "loop"}
            => \A i \in 1..Len(n.lastFrame.json) :
                   \A j \in DOMAIN n.presences[i].emails :
                       PresenceKey(<<"customer-service", "_">>
                                       \o n.presences[i].order_id,
                                   n.presences[i].emails[j])
                           \in DOMAIN store

(***************************************************************************)
(* C20.  Every presence key names a room and a participant such that the   *)
(* participant was authorized, as EMPLOYEE or CLIENT, on the room's order  *)
(* and had a joined connection to that room when the key was written.  A   *)
(* connection that connect() turned away (anonymous, neither staff nor     *)
(* owner, order not found) never writes or refreshes a key, and a          *)
(* connection writes the key of no room but its own.                       *)
(***************************************************************************)
C20_KeyOfConn(c) ==
    <<"customer-service", "_", corder[c], "_">> \o Email(cuser[c])

C20_KeysHaveJoinedWriter ==
    \A k \in DOMAIN store :
        \E c \in Conns : /\ AuthorizedCaller(c)
                         /\ njoin[c] = 1
                         /\ k = C20_KeyOfConn(c)

C20_WriteByJoined ==
    nbeats' # nbeats \/ store' # store =>
        \E c \in Conns :
            /\ pc[c] = "joined" /\ pc'[c] = "joined"
            /\ AuthorizedCaller(c)
            /\ c \in groups[RoomGroupName(corder[c])]
            /\ DOMAIN store' = DOMAIN store \cup {C20_KeyOfConn(c)}
            /\ store'[C20_KeyOfConn(c)] = TTL
            /\ \A k \in DOMAIN store \ {C20_KeyOfConn(c)} :
                   store'[k] = store[k]

C20_PresenceKeysOfJoinedCallers ==
    /\ []C20_KeysHaveJoinedWriter
    /\ [][C20_WriteByJoined]_vars

C20_Witness ==
    /\ nbeats = 2
    /\ \E c, d \in Conns :
          /\ pc[c] = "joined" /\ cuser[c] = "cust2" /\ corder[c] = "2"
          /\ C20_KeyOfConn(c) \in DOMAIN store
          /\ pc[d] = "closed" /\ cuser[d] = "cust1" /\ corder[d] = "2"
          /\ njoin[d] = 0
          /\ C20_KeyOfConn(d) \notin DOMAIN store

(***************************************************************************)
(* The whole program: every action, every caller.                          *)
(***************************************************************************)
Next ==
    \/ NextChat
    \/ NextNotify
    \/ NextAuth
    \/ NextTracker
    \/ NextEvents
    \/ NextKey

Spec == Init /\ [][Next]_vars

=============================================================================
